---- MODULE Spec2Model ----
(***************************************************************************)
(* Model of spotify-reorder (src/src/main.rs): get_music_list builds one   *)
(* sort label per playlist item and sorts a copy; main asks confirmation;  *)
(* reorder_musics walks the sorted list and, for every label that is not   *)
(* at its place in the local mirror, asks the remote playlist to move a    *)
(* block and replays the move on the mirror.                               *)
(*                                                                         *)
(* Strings are sequences of byte codes (ASCII), compared as Rust compares  *)
(* String values: lexicographically, byte by byte.  Indices are 0-based as *)
(* in the source; At(s, i) reads element i of a vector.                    *)
(***************************************************************************)
EXTENDS Integers, Sequences, FiniteSets, TLC

\* ------------------------------------------------------------------ bounds
\* Longest playlist the paginator yields.
MaxLen == 4

\* ------------------------------------------------------- program constants
\* '-' pushed between the fields of a label (main.rs:104).
Dash == 45
\* the fill character of format!("{:0>6}", ..) (main.rs:121).
ZeroChar == 48
\* the width of format!("{:0>6}", ..) (main.rs:121).
PadWidth == 6

\* ------------------------------------------------------------ string model
None == <<0>>

At(s, i) == s[i + 1]

\* Ord for String / str: byte-wise lexicographic, a proper prefix is smaller.
RECURSIVE LexLess(_, _)
LexLess(a, b) ==
    IF b = <<>> THEN FALSE
    ELSE IF a = <<>> THEN TRUE
    ELSE IF Head(a) < Head(b) THEN TRUE
    ELSE IF Head(a) > Head(b) THEN FALSE
    ELSE LexLess(Tail(a), Tail(b))

\* Display of a non-negative integer: its decimal digits.
RECURSIVE Digits(_)
Digits(n) ==
    IF n < 10 THEN <<ZeroChar + n>>
    ELSE Digits(n \div 10) \o <<ZeroChar + (n % 10)>>

\* format!("{:0>6}", n): right-aligned, filled with '0' up to the width;
\* a longer number is written whole.
RECURSIVE PadLeft(_, _)
PadLeft(s, w) == IF Len(s) >= w THEN s ELSE PadLeft(<<ZeroChar>> \o s, w)

Format06(n) == PadLeft(Digits(n), PadWidth)

\* ------------------------------------------------- what the paginator yields
\* kind: "track" | "episode" | "none" (PlaylistItem.track is None) |
\*       "error" (the paginator yields Err(ClientError)).
Track(artist, date, precision, album, disc, track, name, local) ==
    [kind |-> "track", is_local |-> local, artist |-> artist,
     release_date |-> date, release_date_precision |-> precision,
     album |-> album, disc_number |-> disc, track_number |-> track,
     name |-> name]

Other(kind) ==
    [kind |-> kind, is_local |-> FALSE, artist |-> <<>>,
     release_date |-> None, release_date_precision |-> "none",
     album |-> <<>>, disc_number |-> 0, track_number |-> 0, name |-> <<>>]

\* "2020", "2020-03-05", "2019-07"
Date2020 == <<50, 48, 50, 48>>
Date20200305 == <<50, 48, 50, 48, 45, 48, 51, 45, 48, 53>>
Date201907 == <<50, 48, 49, 57, 45, 48, 55>>

\* "000001-000009"
Num19 == <<48, 48, 48, 48, 48, 49, 45, 48, 48, 48, 48, 48, 57>>

\* Tracks 1-6 get a label; 1 and 2 differ in date precision and in a track
\* number of one and two digits, 3 has a blank in the artist name, 5 and 6
\* carry the separator and digits inside their album and track names.
Catalog ==
    << Track(<<65>>, Date2020, "year", <<88>>, 1, 9, <<83>>, FALSE),
       Track(<<65>>, Date20200305, "day", <<88>>, 1, 10, <<84>>, FALSE),
       Track(<<65, 32, 66>>, Date2020, "year", <<88>>, 1, 9, <<83>>, FALSE),
       Track(<<66>>, Date201907, "month", <<89>>, 2, 1, <<85>>, FALSE),
       Track(<<65>>, Date2020, "year", <<88>>, 1, 9, Num19 \o <<45, 83>>,
             FALSE),
       Track(<<65>>, Date2020, "year", <<88, 45>> \o Num19, 1, 9, <<83>>,
             FALSE),
       Other("episode"),
       Track(<<65>>, Date2020, "year", <<88>>, 1, 9, <<83>>, TRUE),
       Track(<<65>>, None, "year", <<88>>, 1, 9, <<83>>, FALSE),
       Track(<<65>>, Date2020, "none", <<88>>, 1, 9, <<83>>, FALSE),
       Other("error"),
       Other("none") >>

ItemIds == 1..Len(Catalog)

\* ------------------------------------------------------------ get_music_list
ItemErrorLocalAccepted(item) ==
    IF item.kind = "error" THEN "SpotifyError"
    ELSE IF item.kind = "none" THEN "panic"
    ELSE IF item.kind = "episode" THEN "EpisodeInPlaylist"
    ELSE IF item.release_date = None THEN "EmptyArgOnMusic(album.release_date)"
    ELSE IF item.release_date_precision = "none"
         THEN "EmptyArgOnMusic(album.release_date_precision)"
    ELSE ""

\* The first check of the loop body that stops the function, "" when the
\* item gets a label.
ItemError(item) ==
    IF item.kind = "error" THEN "SpotifyError"
    ELSE IF item.kind = "none" THEN "panic"
    ELSE IF item.kind = "episode" THEN "EpisodeInPlaylist"
    ELSE IF item.is_local THEN "LocalMusicInPlaylist"
    ELSE IF item.release_date = None THEN "EmptyArgOnMusic(album.release_date)"
    ELSE IF item.release_date_precision = "none"
         THEN "EmptyArgOnMusic(album.release_date_precision)"
    ELSE ""

\* The release date as it is written into the label.
NormalizedDate(item) ==
    IF item.release_date_precision = "year"
        THEN item.release_date \o <<Dash, 48, 49, Dash, 48, 49>>
    ELSE IF item.release_date_precision = "month"
        THEN item.release_date \o <<Dash, 48, 49>>
    ELSE item.release_date

MusicLabel(item) ==
    item.artist \o <<Dash>> \o NormalizedDate(item) \o <<Dash>> \o
    item.album \o <<Dash>> \o Format06(item.disc_number) \o <<Dash>> \o
    Format06(item.track_number) \o <<Dash>> \o item.name

RECURSIVE InsertSortedDescending(_, _)
InsertSortedDescending(s, x) ==
    IF s = <<>> THEN <<x>>
    ELSE IF LexLess(Head(s), x) THEN <<x>> \o s
    ELSE <<Head(s)>> \o InsertSortedDescending(Tail(s), x)

\* Vec<String>::sort_unstable: short slices are insertion-sorted.
RECURSIVE InsertSorted(_, _)
InsertSorted(s, x) ==
    IF s = <<>> THEN <<x>>
    ELSE IF LexLess(x, Head(s)) THEN <<x>> \o s
    ELSE <<Head(s)>> \o InsertSorted(Tail(s), x)

RECURSIVE SortUnstable(_)
SortUnstable(s) ==
    IF s = <<>> THEN <<>>
    ELSE InsertSorted(SortUnstable(SubSeq(s, 1, Len(s) - 1)), s[Len(s)])

\* ------------------------------------------------------------ reorder_musics
\* iter().position(|x| x == key): first index holding key, -1 for None.
Position(list, key) ==
    IF \E i \in 1..Len(list) : list[i] = key
        THEN (CHOOSE i \in 1..Len(list) :
                 list[i] = key /\ \A j \in 1..(i - 1) : list[j] # key) - 1
    ELSE -1

RECURSIVE SequenceLoopNoBreak(_, _, _, _, _)
SequenceLoopNoBreak(ol, ul, t, c, k) ==
    IF t + 1 + k >= Len(ol) \/ c + 1 + k >= Len(ul) THEN -1
    ELSE IF At(ol, t + 1 + k) # At(ul, c + 1 + k) THEN k
    ELSE SequenceLoopNoBreak(ol, ul, t, c, k + 1)

\* The inner while of lines 158-163, entered with count k; -1 when a vector
\* is indexed past its end.
RECURSIVE SequenceLoop(_, _, _, _, _)
SequenceLoop(ol, ul, t, c, k) ==
    IF t + 1 + k >= Len(ol) \/ c + 1 + k >= Len(ul) THEN -1
    ELSE IF At(ol, t + 1 + k) # At(ul, c + 1 + k) THEN k
    ELSE IF t + k + 2 = Len(ol) \/ c + k + 2 = Len(ol) THEN k + 1
    ELSE SequenceLoop(ol, ul, t, c, k + 1)

SequenceCountNone(ol, ul, t, c) == 0

\* music_sequence_count when the move is issued (lines 157-164).
SequenceCount(ol, ul, t, c) ==
    IF t + 1 # Len(ol) /\ c + 1 # Len(ol)
        THEN SequenceLoop(ol, ul, t, c, 0)
    ELSE 0

\* Vec::drain(from..to): what is left, and what was taken out.
DrainRest(list, from, to) ==
    SubSeq(list, 1, from) \o SubSeq(list, to + 1, Len(list))

DrainTakenFirstOnly(list, from, to) ==
    [i \in 1..(to - from) |-> list[from + 1]]

DrainTaken(list, from, to) == SubSeq(list, from + 1, to)

\* Vec::insert(index, x)
Insert(list, index, x) ==
    SubSeq(list, 1, index) \o <<x>> \o SubSeq(list, index + 1, Len(list))

InsertIndexNoOffset(t, position) == t

\* The index the element number position of the block is inserted at.
InsertIndex(t, position) == t + position

\* for (position, item) in moved_musics.iter().enumerate() { insert(..) }
RECURSIVE InsertAll(_, _, _, _)
InsertAll(list, t, moved, position) ==
    IF position >= Len(moved) THEN list
    ELSE InsertAll(Insert(list, InsertIndex(t, position), At(moved, position)),
                   t, moved, position + 1)

AfterMoveSingle(ul, t, c, count) ==
    [list  |-> Insert(DrainRest(ul, c, c + 1), t, At(ul, c)),
     index |-> t + 1]

AfterMoveSkipped(ul, t, c, count) == [list |-> ul, index |-> t]

\* Lines 176-183: the mirror and the cursor after a move came back Ok.
AfterMove(ul, t, c, count) ==
    [list  |-> InsertAll(DrainRest(ul, c, c + count + 1), t,
                         DrainTaken(ul, c, c + count + 1), 0),
     index |-> t + 1]

AfterCallIgnored(ok) == "loop"

\* The `?` on the remote call: where control goes with the call's result.
AfterCall(ok) == IF ok THEN "loop" ELSE "err"

\* The remote playlist after a move it accepted: the range_length items from
\* range_start are taken out and put back so that the first one sits at
\* insert_before.
RemoteReorder(r, range_start, insert_before, range_length) ==
    LET block == SubSeq(r, range_start + 1, range_start + range_length)
        rest  == SubSeq(r, 1, range_start) \o
                 SubSeq(r, range_start + range_length + 1, Len(r))
    IN  SubSeq(rest, 1, insert_before) \o block \o
        SubSeq(rest, insert_before + 1, Len(rest))

\* --------------------------------------------------------------------- state
VARIABLES
    pc,                    \* where main is
    consumed,              \* ids of the items taken from the paginator
    error,                 \* the OrderingError that stopped the run, or ""
    unordered_music_list,  \* the labels in playlist order: the mirror
    ordered_music_list,    \* the sorted labels
    ordered_list_index,    \* the cursor of reorder_musics
    fetched,               \* the labels as get_music_list returned them
    remote,                \* the remote playlist: positions of `fetched`
    moves,                 \* the remote calls issued by this run, in order
    aborted_at             \* the cursors at which earlier runs were aborted

vars == <<pc, consumed, error, unordered_music_list, ordered_music_list,
          ordered_list_index, fetched, remote, moves, aborted_at>>

Init ==
    /\ pc = "fetch"
    /\ consumed = <<>>
    /\ error = ""
    /\ unordered_music_list = <<>>
    /\ ordered_music_list = <<>>
    /\ ordered_list_index = 0
    /\ fetched = <<>>
    /\ remote = <<>>
    /\ moves = <<>>
    /\ aborted_at = <<>>

\* One turn of the for loop of get_music_list (lines 91-127); an Err makes
\* main panic (lines 264-267) and the vector under construction is dropped.
FetchItem ==
    /\ pc = "fetch"
    /\ Len(consumed) < MaxLen
    /\ \E id \in ItemIds :
         LET item == Catalog[id]
             e    == ItemError(item)
         IN  /\ consumed' = Append(consumed, id)
             /\ IF e = ""
                  THEN /\ unordered_music_list' =
                              Append(unordered_music_list, MusicLabel(item))
                       /\ UNCHANGED <<pc, error>>
                  ELSE /\ unordered_music_list' = <<>>
                       /\ error' = e
                       /\ pc' = "panic"
    /\ UNCHANGED <<ordered_music_list, ordered_list_index, fetched, remote,
                   moves>>
    /\ UNCHANGED aborted_at

\* The paginator is exhausted: lines 129-131, and main binds the two lists.
FetchEnd ==
    /\ pc = "fetch"
    /\ ordered_music_list' = SortUnstable(unordered_music_list)
    /\ fetched' = unordered_music_list
    /\ remote' = [i \in 1..Len(unordered_music_list) |-> i]
    /\ pc' = "confirm"
    /\ UNCHANGED <<consumed, error, unordered_music_list, ordered_list_index,
                   moves>>
    /\ UNCHANGED aborted_at

\* Lines 277-283: only the answer "yes" starts reorder_musics.
Confirm ==
    /\ pc = "confirm"
    /\ \E yes \in BOOLEAN : pc' = IF yes THEN "loop" ELSE "cancelled"
    /\ UNCHANGED <<consumed, error, unordered_music_list, ordered_music_list,
                   ordered_list_index, fetched, remote, moves>>
    /\ UNCHANGED aborted_at

\* Lines 148-156: the label of the cursor is at its place.
Skip ==
    /\ pc = "loop"
    /\ ordered_list_index < Len(ordered_music_list)
    /\ LET c == Position(unordered_music_list,
                         At(ordered_music_list, ordered_list_index))
       IN  /\ c # -1
           /\ c = ordered_list_index
    /\ ordered_list_index' = ordered_list_index + 1
    /\ UNCHANGED <<pc, consumed, error, unordered_music_list,
                   ordered_music_list, fetched, remote, moves>>
    /\ UNCHANGED aborted_at

\* Lines 148-152 and 157-187: the label is elsewhere (or missing: unwrap
\* panics); the run is measured, the remote call is made and, when it comes
\* back Ok, replayed on the mirror.
IssueMove ==
    /\ pc = "loop"
    /\ ordered_list_index < Len(ordered_music_list)
    /\ LET t == ordered_list_index
           c == Position(unordered_music_list, At(ordered_music_list, t))
           count == SequenceCount(ordered_music_list, unordered_music_list,
                                  t, c)
       IN  /\ c # t
           /\ IF c = -1 \/ count = -1
                THEN /\ pc' = "panic"
                     /\ UNCHANGED <<unordered_music_list, ordered_list_index,
                                    remote, moves>>
                ELSE \E ok \in BOOLEAN :
                       LET after == AfterMove(unordered_music_list, t, c, count)
                       IN  /\ moves' = Append(moves,
                                  [src |-> c, dst |-> t, len |-> count + 1,
                                   ok |-> ok])
                           /\ remote' = IF ok
                                  THEN RemoteReorder(remote, c, t, count + 1)
                                  ELSE remote
                           /\ pc' = AfterCall(ok)
                           /\ IF pc' = "loop"
                                THEN /\ unordered_music_list' = after.list
                                     /\ ordered_list_index' = after.index
                                ELSE UNCHANGED <<unordered_music_list,
                                                 ordered_list_index>>
    /\ UNCHANGED <<consumed, error, ordered_music_list, fetched>>
    /\ UNCHANGED aborted_at

\* Line 188: the cursor reached the end.
LoopExit ==
    /\ pc = "loop"
    /\ ordered_list_index >= Len(ordered_music_list)
    /\ pc' = "ok"
    /\ UNCHANGED <<consumed, error, unordered_music_list, ordered_music_list,
                   ordered_list_index, fetched, remote, moves>>
    /\ UNCHANGED aborted_at

Next ==
    \/ FetchItem
    \/ FetchEnd
    \/ Confirm
    \/ Skip
    \/ IssueMove
    \/ LoopExit

Spec == Init /\ [][Next]_vars

\* reorder_musics is sequential code: a turn of its loop that can be taken
\* is taken (the remote call returns, the sleep ends).
FairSpec == Spec /\ WF_vars(Skip \/ IssueMove \/ LoopExit)

\* ---------------------------------------------------------- derived notions
Unique(list) ==
    \A i, j \in 1..Len(list) : list[i] = list[j] => i = j

\* The labels of the remote playlist, in its current order.
RemoteLabels == [i \in 1..Len(remote) |-> fetched[remote[i]]]

Running == pc \in {"loop", "ok", "err"}

\* ------------------------------------------------------------------ re-runs
\* Runs of the program on one playlist, the first one included.
MaxRuns == 2

\* The program is started again after a run that a failed call ended: main
\* fetches the playlist as the remote store now has it, get_music_list builds
\* and sorts the labels, and main asks for the confirmation again.
Rerun ==
    /\ pc = "err"
    /\ Len(aborted_at) + 1 < MaxRuns
    /\ LET items  == [i \in 1..Len(remote) |-> consumed[remote[i]]]
           labels == [i \in 1..Len(items) |-> MusicLabel(Catalog[items[i]])]
       IN  /\ consumed' = items
           /\ unordered_music_list' = labels
           /\ fetched' = labels
           /\ ordered_music_list' = SortUnstable(labels)
           /\ remote' = [i \in 1..Len(items) |-> i]
    /\ ordered_list_index' = 0
    /\ moves' = <<>>
    /\ aborted_at' = Append(aborted_at, ordered_list_index)
    /\ pc' = "confirm"
    /\ UNCHANGED error

NextRerun == Next \/ Rerun

SpecRerun == Init /\ [][NextRerun]_vars

\* -------------------------------------------------------------------- claims
\* C1: with unique labels, a run of reorder_musics that returns Ok leaves the
\* mirror element for element equal to the sorted list.
Convergence ==
    (pc = "ok" /\ Unique(fetched)) =>
        unordered_music_list = ordered_music_list

ConvergenceWitness ==
    /\ pc = "ok"
    /\ Unique(fetched)
    /\ fetched # ordered_music_list
    /\ Len(moves) >= 2
    /\ \E k \in 1..Len(moves) : moves[k].len >= 2
    /\ unordered_music_list = ordered_music_list

\* Every label of the list is smaller than the labels after it.
Ascending(list) ==
    \A i \in 1..Len(list), j \in 1..Len(list) :
        i < j => LexLess(list[i], list[j])

\* C2: with unique labels, a finished run has issued no remote call exactly
\* when the playlist was fetched already sorted: equal to the sorted list,
\* which is to say in ascending order.
ZeroMovesIffSorted ==
    (pc \in {"ok", "err"} /\ Unique(fetched)) =>
        /\ moves = <<>> <=> fetched = ordered_music_list
        /\ moves = <<>> <=> Ascending(fetched)

ZeroMovesIffSortedWitness ==
    /\ pc = "ok"
    /\ Unique(fetched)
    /\ Len(fetched) >= 3
    /\ fetched = ordered_music_list
    /\ moves = <<>>

\* C3: with unique labels, a run never issues more remote calls than the
\* playlist has items.
CallBound == Unique(fetched) => Len(moves) <= Len(fetched)

CallBoundWitness ==
    /\ pc = "ok"
    /\ Unique(fetched)
    /\ Len(fetched) >= 3
    /\ Len(moves) = Len(fetched) - 1

\* The list with the len items from index from taken out and put back so that
\* the first one sits at index to.
Displace(list, from, to, len) ==
    LET block == SubSeq(list, from + 1, from + len)
        rest  == SubSeq(list, 1, from) \o SubSeq(list, from + len + 1, Len(list))
    IN  SubSeq(rest, 1, to) \o block \o SubSeq(rest, to + 1, Len(rest))

\* The playlist was fetched as the sorted list with the block of len items
\* of index from sitting at index to instead.
OneBlockDisplaced(from, to, len) ==
    /\ len >= 1
    /\ from + len <= Len(ordered_music_list)
    /\ to + len <= Len(ordered_music_list)
    /\ to # from
    /\ fetched = Displace(ordered_music_list, from, to, len)

Places == 0..Len(ordered_music_list)

MirrorConsistency == Running => unordered_music_list = RemoteLabels

MirrorConsistencyWitness ==
    /\ pc = "loop"
    /\ Len(moves) >= 2
    /\ \E k \in 1..Len(moves) : moves[k].ok /\ moves[k].len >= 2
    /\ unordered_music_list = RemoteLabels
    /\ unordered_music_list # fetched

LastCallFailed == moves # <<>> /\ ~moves[Len(moves)].ok

\* C6: a remote call that fails ends the run with "err" and leaves the mirror
\* and the cursor as they were; after it no call is issued and nothing
\* changes; every earlier call succeeded and, with unique labels, the items
\* those calls placed are still at their places.
FailureAborts ==
    /\ [][ /\ (Len(moves') = Len(moves) + 1 /\ ~moves'[Len(moves')].ok) =>
                 /\ pc' = "err"
                 /\ unordered_music_list' = unordered_music_list
                 /\ ordered_list_index' = ordered_list_index
                 /\ remote' = remote
           /\ (LastCallFailed \/ pc = "err") =>
                 /\ moves' = moves
                 /\ unordered_music_list' = unordered_music_list ]_vars
    /\ [](pc = "err" =>
            /\ LastCallFailed
            /\ \A k \in 1..(Len(moves) - 1) :
                  /\ moves[k].ok
                  /\ Unique(fetched) =>
                        At(unordered_music_list, moves[k].dst) =
                        At(ordered_music_list, moves[k].dst))

FailureAbortsWitness ==
    /\ pc = "err"
    /\ Len(moves) >= 3
    /\ LastCallFailed
    /\ unordered_music_list # fetched
    /\ unordered_music_list # ordered_music_list

Rejected(id) == Catalog[id].kind = "episode" \/ Catalog[id].is_local

\* C7: once an episode or a local track came out of the paginator,
\* get_music_list has returned an error, main has stopped, no list of
\* labels exists and no remote call was made.
Rejection ==
    (\E i \in 1..Len(consumed) : Rejected(consumed[i])) =>
        /\ pc = "panic"
        /\ error \in {"EpisodeInPlaylist", "LocalMusicInPlaylist"}
        /\ unordered_music_list = <<>>
        /\ ordered_music_list = <<>>
        /\ remote = <<>>
        /\ moves = <<>>

RejectionWitness ==
    /\ Len(consumed) >= 3
    /\ Catalog[consumed[Len(consumed)]].is_local
    /\ pc = "panic"
    /\ error = "LocalMusicInPlaylist"

\* The fields of a track the label is built from, compared one after the
\* other: strings as strings, numbers as numbers.
TupleLess(a, b) ==
    IF a.artist # b.artist THEN LexLess(a.artist, b.artist)
    ELSE IF NormalizedDate(a) # NormalizedDate(b)
        THEN LexLess(NormalizedDate(a), NormalizedDate(b))
    ELSE IF a.album # b.album THEN LexLess(a.album, b.album)
    ELSE IF a.disc_number # b.disc_number THEN a.disc_number < b.disc_number
    ELSE IF a.track_number # b.track_number
        THEN a.track_number < b.track_number
    ELSE LexLess(a.name, b.name)

TupleEqual(a, b) ==
    /\ a.artist = b.artist
    /\ NormalizedDate(a) = NormalizedDate(b)
    /\ a.album = b.album
    /\ a.disc_number = b.disc_number
    /\ a.track_number = b.track_number
    /\ a.name = b.name

\* C8: the labels get_music_list returned compare as the tuples (artist,
\* normalized release date, album, disc number, track number, name) of their
\* tracks do, and equal labels come from equal tuples.
KeyOrder ==
    \A i \in 1..Len(fetched), j \in 1..Len(fetched) :
        /\ LexLess(fetched[i], fetched[j]) <=>
               TupleLess(Catalog[consumed[i]], Catalog[consumed[j]])
        /\ fetched[i] = fetched[j] =>
               TupleEqual(Catalog[consumed[i]], Catalog[consumed[j]])

\* The positions where the mirror holds the label of the sorted list.
Matches ==
    Cardinality({i \in 1..Len(ordered_music_list) :
                    /\ i <= Len(unordered_music_list)
                    /\ unordered_music_list[i] = ordered_music_list[i]})

MatchesFetched ==
    Cardinality({i \in 1..Len(ordered_music_list) :
                    fetched[i] = ordered_music_list[i]})

\* The length of the longest prefix the mirror shares with the sorted list.
PrefixLen ==
    Cardinality({i \in 1..Len(ordered_music_list) :
                    /\ i <= Len(unordered_music_list)
                    /\ \A j \in 1..i :
                          unordered_music_list[j] = ordered_music_list[j]})

MoveDone == Len(moves') = Len(moves) + 1 /\ moves'[Len(moves')].ok

\* C9 as stated, for unique labels: a move that succeeded raises the number
\* of positions holding their final label by at least one.
ProgressAllPositions ==
    [][(MoveDone /\ Unique(fetched)) => Matches' >= Matches + 1]_vars

\* C9 amended: with unique labels, a move that succeeded lengthens the prefix
\* the mirror shares with the sorted list by at least one.
ProgressPrefix ==
    [][(MoveDone /\ Unique(fetched)) => PrefixLen' >= PrefixLen + 1]_vars

ProgressPrefixWitness ==
    /\ pc = "loop"
    /\ Unique(fetched)
    /\ Len(moves) = 1
    /\ moves[1].ok
    /\ PrefixLen = 1
    /\ Matches < MatchesFetched

\* C10: a run that returns Ok on a playlist with equal labels leaves the
\* mirror equal to the sorted list.
DuplicatesConverge ==
    (pc = "ok" /\ ~Unique(fetched)) =>
        unordered_music_list = ordered_music_list

\* The list after the first k calls of the log, each one taking its block
\* out and putting it back at its destination.
RECURSIVE Replay(_, _, _)
Replay(list, log, k) ==
    IF k = 0 THEN list
    ELSE Displace(Replay(list, log, k - 1), log[k].src, log[k].dst,
                  log[k].len)

\* C11: the destinations of the calls of a run increase strictly; every call
\* but the last came back Ok; and the source of each call is the first index
\* of the label of its destination in the list that the calls before it,
\* applied in order to the fetched list, have left.
MoveOrdering ==
    \A k \in 1..Len(moves) :
        /\ k > 1 => moves[k - 1].dst < moves[k].dst
        /\ k < Len(moves) => moves[k].ok
        /\ moves[k].src =
              Position(Replay(fetched, moves, k - 1),
                       At(ordered_music_list, moves[k].dst))

MoveOrderingWitness ==
    /\ Len(moves) >= 2
    /\ \A k \in 1..Len(moves) : moves[k].ok
    /\ \E k \in 1..Len(moves) : moves[k].len >= 2
    /\ Unique(fetched)

\* Both lists hold the same labels, each as often as the other.
SameLabels(a, b) ==
    /\ Len(a) = Len(b)
    /\ \A i \in 1..Len(a) :
          Cardinality({j \in 1..Len(a) : a[j] = a[i]}) =
          Cardinality({j \in 1..Len(b) : b[j] = a[i]})

\* C12: with unique labels the mirror holds, while reorder_musics runs and
\* after it, exactly the labels of the sorted list, every label of the sorted
\* list is found in it, and main stops with a panic only inside
\* get_music_list.
LookupNeverFails ==
    /\ (Running /\ Unique(fetched)) =>
          /\ SameLabels(unordered_music_list, ordered_music_list)
          /\ \A t \in 1..Len(ordered_music_list) :
                Position(unordered_music_list, ordered_music_list[t]) # -1
    /\ (pc = "panic" /\ Unique(fetched)) => error # ""

LookupNeverFailsWitness ==
    /\ pc = "loop"
    /\ Unique(fetched)
    /\ Len(moves) >= 2
    /\ ordered_list_index < Len(ordered_music_list)
    /\ unordered_music_list # ordered_music_list
    /\ Position(unordered_music_list,
                At(ordered_music_list, ordered_list_index)) >
          ordered_list_index

\* C13: with unique labels, at the head of every turn of the loop and after
\* a failed call, the mirror agrees with the sorted list at every index below
\* the cursor.
SortedPrefix ==
    (pc \in {"loop", "err"} /\ Unique(fetched)) =>
        \A i \in 1..ordered_list_index :
            unordered_music_list[i] = ordered_music_list[i]

SortedPrefixWitness ==
    /\ pc = "err"
    /\ Unique(fetched)
    /\ ordered_list_index >= 2
    /\ Len(moves) >= 2
    /\ unordered_music_list # ordered_music_list

\* len is the length of the longest run that the sorted list from index t
\* and the mirror from index c have in common.
LongestRun(ol, ul, t, c, len) ==
    /\ len >= 1
    /\ t + len <= Len(ol)
    /\ c + len <= Len(ul)
    /\ \A j \in 0..(len - 1) : At(ol, t + j) = At(ul, c + j)
    /\ \/ t + len = Len(ol)
       \/ c + len = Len(ul)
       \/ At(ol, t + len) # At(ul, c + len)

CallIssued == Len(moves') = Len(moves) + 1

LastMove == moves[Len(moves)]

\* C14: the block length of every call is the length of the longest run the
\* sorted list from the cursor and the mirror from the source have in common,
\* and measuring it never indexes a list past its end.
RunLength ==
    /\ [][CallIssued =>
             LongestRun(ordered_music_list, unordered_music_list,
                        LastMove'.dst, LastMove'.src, LastMove'.len)]_vars
    /\ []((pc = "loop" /\ ordered_list_index < Len(ordered_music_list)) =>
            LET c == Position(unordered_music_list,
                              At(ordered_music_list, ordered_list_index))
            IN  (c # -1 /\ c # ordered_list_index) =>
                    SequenceCount(ordered_music_list, unordered_music_list,
                                  ordered_list_index, c) # -1)

RunLengthWitness ==
    /\ Len(moves) >= 2
    /\ \E k \in 1..Len(moves) :
          /\ moves[k].len >= 2
          /\ moves[k].src + moves[k].len = Len(fetched)
    /\ \E k \in 1..Len(moves) :
          /\ moves[k].len >= 2
          /\ moves[k].src + moves[k].len < Len(fetched)

\* C15: with unique labels every call goes to the cursor, from a source
\* behind it, with a block of at least one item that ends inside the list.
MoveParameters ==
    /\ [](Unique(fetched) =>
            \A k \in 1..Len(moves) :
                /\ 0 <= moves[k].dst
                /\ moves[k].dst < moves[k].src
                /\ moves[k].len >= 1
                /\ moves[k].src + moves[k].len <= Len(fetched))
    /\ [][(CallIssued /\ Unique(fetched)) =>
             LastMove'.dst = ordered_list_index]_vars

MoveParametersWitness ==
    /\ Unique(fetched)
    /\ Len(moves) >= 2
    /\ \E k \in 1..Len(moves) :
          /\ moves[k].len >= 2
          /\ moves[k].dst + moves[k].len > moves[k].src
          /\ moves[k].src + moves[k].len = Len(fetched)

\* C16: with unique labels a call of block length len that came back Ok
\* leaves the len indices from its destination holding their final labels,
\* and the next call of the run goes to an index past them.
WholeBlockPlaced ==
    /\ [][(MoveDone /\ Unique(fetched)) =>
             \A j \in 0..(LastMove'.len - 1) :
                 At(unordered_music_list', LastMove'.dst + j) =
                 At(ordered_music_list, LastMove'.dst + j)]_vars
    /\ [](Unique(fetched) =>
            \A k \in 2..Len(moves) :
                moves[k].dst >= moves[k - 1].dst + moves[k - 1].len)

WholeBlockPlacedWitness ==
    /\ Unique(fetched)
    /\ Len(moves) = 2
    /\ moves[1].len >= 2
    /\ moves[2].ok

\* C17: reorder_musics, once started, returns, with Ok or with the error of
\* a failed call; every turn of its loop that does not return moves the
\* cursor one index on, and the cursor never passes the length of the list.
Termination ==
    /\ (pc = "loop") ~> (pc \in {"ok", "err"})
    /\ [][(pc = "loop" /\ pc' = "loop") =>
             ordered_list_index' = ordered_list_index + 1]_vars
    /\ [](ordered_list_index <= Len(ordered_music_list))
    /\ [](pc = "err" => LastCallFailed)
    /\ [](pc = "ok" =>
            /\ ordered_list_index = Len(ordered_music_list)
            /\ \A k \in 1..Len(moves) : moves[k].ok)

TerminationWitness ==
    /\ pc = "ok"
    /\ Len(ordered_music_list) = MaxLen
    /\ Len(moves) >= 2
    /\ ordered_list_index = Len(ordered_music_list)

\* C18: the lists get_music_list returns are the labels of the items in the
\* order they came, and a list of the same labels in which no label is
\* followed by a smaller one.
CanonicalizerOutput ==
    pc \in {"confirm", "cancelled", "loop", "ok", "err"} =>
        /\ Len(fetched) = Len(consumed)
        /\ \A i \in 1..Len(fetched) :
              fetched[i] = MusicLabel(Catalog[consumed[i]])
        /\ SameLabels(fetched, ordered_music_list)
        /\ \A i \in 1..Len(ordered_music_list),
              j \in 1..Len(ordered_music_list) :
              i < j => ~LexLess(ordered_music_list[j], ordered_music_list[i])

CanonicalizerOutputWitness ==
    /\ pc = "confirm"
    /\ Len(fetched) = MaxLen
    /\ ~Unique(fetched)
    /\ fetched # ordered_music_list
    /\ unordered_music_list = fetched

\* C19: a run started after an aborted one issues no call to an index below
\* the cursor at which that one was aborted, and when it returns Ok the
\* mirror equals the sorted list.
RerunConverges ==
    aborted_at # <<>> =>
        /\ \A k \in 1..Len(moves) :
              moves[k].dst >= aborted_at[Len(aborted_at)]
        /\ pc = "ok" => unordered_music_list = ordered_music_list

\* The item cannot get a label: the paginator gave an error, or an item
\* without a track, or an episode, or a local track, or a track without a
\* release date or without its precision.
Fails(id) ==
    \/ Catalog[id].kind \in {"error", "none", "episode"}
    \/ Catalog[id].is_local
    \/ Catalog[id].release_date = None
    \/ Catalog[id].release_date_precision = "none"

\* The error is the one that the item calls for.
ErrorFits(e, id) ==
    /\ e = "SpotifyError" <=> Catalog[id].kind = "error"
    /\ e = "panic" <=> Catalog[id].kind = "none"
    /\ e = "EpisodeInPlaylist" <=> Catalog[id].kind = "episode"
    /\ e = "LocalMusicInPlaylist" <=> Catalog[id].is_local
    /\ e = "EmptyArgOnMusic(album.release_date)" <=>
          (Catalog[id].kind = "track" /\ ~Catalog[id].is_local
           /\ Catalog[id].release_date = None)
    /\ e = "EmptyArgOnMusic(album.release_date_precision)" <=>
          (Catalog[id].kind = "track" /\ ~Catalog[id].is_local
           /\ Catalog[id].release_date # None
           /\ Catalog[id].release_date_precision = "none")

\* C20: an item that cannot get a label is the last item get_music_list
\* takes: the error is the one of that item, the labels built before it are
\* gone, no list is returned and nothing more is taken from the paginator.
FirstFailureWins ==
    /\ []((\E i \in 1..Len(consumed) : Fails(consumed[i])) =>
            /\ pc = "panic"
            /\ \A i \in 1..(Len(consumed) - 1) : ~Fails(consumed[i])
            /\ ErrorFits(error, consumed[Len(consumed)])
            /\ unordered_music_list = <<>>
            /\ ordered_music_list = <<>>
            /\ fetched = <<>>)
    /\ []((pc = "panic" /\ consumed # <<>>) =>
            Fails(consumed[Len(consumed)]))
    /\ [][pc = "panic" => consumed' = consumed]_vars

FirstFailureWinsWitness ==
    /\ pc = "panic"
    /\ Len(consumed) >= 3
    /\ error = "EmptyArgOnMusic(album.release_date_precision)"
    /\ unordered_music_list = <<>>

====
